---- MODULE Spec2Model ----
(***************************************************************************)
(* Product catalog backend (Express + Mongoose + Cloudinary).              *)
(*                                                                         *)
(* The repository holds several generations of server.js.  Three of them   *)
(* are modelled here:                                                      *)
(*   - the category-aware server  (src/unnamed/part_001, lines 381-571)    *)
(*   - the multipart upload server (src/unnamed/part_000)                  *)
(*   - the plain JSON server       (src/server.js)                         *)
(* Every `await` of a handler is one step of the model.  A handler is a    *)
(* function from the store and the handler's own state to the outcomes of  *)
(* its next step.  SpecSeq serves requests one after the other; Spec       *)
(* follows one handler await by await and serves any other request, from   *)
(* arrival to response, between two of its awaits.  SpecUpload follows one *)
(* multipart request of the upload server, its uploads settling one at a   *)
(* time in any order.  SpecCatalog follows one client of the plain or of   *)
(* the upload server that creates a product without files and lists the    *)
(* products.                                                               *)
(***************************************************************************)
EXTENDS Integers, Sequences, FiniteSets, TLC

VARIABLES products, categories, req, resp, upload, client

vars == <<products, categories, req, resp, upload, client>>

-----------------------------------------------------------------------------
(* Bounds of the model *)

\* number of Product documents the store may hold
MaxProducts == 2
\* largest Category position the model lets find-or-create assign
MaxPos == 2
\* longest orderedCategories list of a reorder request
MaxOrderLen == 2
\* most files in one multipart request
MaxFiles == 2
\* most variants in the variants field of a multipart request
MaxVariants == 2

\* category names clients use: all of them when requests are served one
\* after the other, two of them when requests interleave
Names == {"Snacks", "Drinks", "Sweets"}
RaceNames == {"Snacks", "Drinks"}
\* product identifiers (store-assigned ObjectIds)
ProductIds == 1..MaxProducts
\* an absent body field (JavaScript undefined)
NoValue == "undefined"
\* values of req.body.name
BodyNames == {"p", NoValue}
\* orderedCategories lists over the names N
OrderLists(N) == UNION {[1..n -> N] : n \in 0..MaxOrderLen}
\* the lists that interleaving requests send: no name twice
RaceLists == {L \in OrderLists(RaceNames) :
                \A i, j \in DOMAIN L : L[i] = L[j] => i = j}

-----------------------------------------------------------------------------
(* Collections *)

\* Product.find({category: n}) as a set of ids
ProductsIn(prods, n) == {i \in DOMAIN prods : prods[i].category = n}

\* Product document inserted by product.save()
InsertProduct(prods, id, doc) == [i \in DOMAIN prods \cup {id} |->
                                    IF i = id THEN doc ELSE prods[i]]

\* Product.findByIdAndDelete / deleteMany: remove the ids in S
RemoveProducts(prods, S) == [i \in DOMAIN prods \ S |-> prods[i]]

\* the store assigns a fresh identifier
FreshId(prods) == CHOOSE i \in ProductIds \ DOMAIN prods :
                     \A j \in ProductIds \ DOMAIN prods : i <= j

\* Category.findOne({name: n}) finds a document
HasCategory(cats, n) == \E i \in 1..Len(cats) : cats[i].name = n

\* index of the first Category document named n (natural order)
FirstNamed(cats, n) == CHOOSE i \in 1..Len(cats) :
                          /\ cats[i].name = n
                          /\ \A j \in 1..(i-1) : cats[j].name # n

\* a sequence without its i-th element
RemoveAt(s, i) == [j \in 1..(Len(s)-1) |-> IF j < i THEN s[j] ELSE s[j+1]]

\* Category.deleteOne({name: n})
DeleteOneCategory(cats, n) ==
    IF HasCategory(cats, n) THEN RemoveAt(cats, FirstNamed(cats, n)) ELSE cats

\* Category.updateOne({name: n}, {$set: {position: p}})
SetPosition(cats, n, p) ==
    IF HasCategory(cats, n)
    THEN [cats EXCEPT ![FirstNamed(cats, n)].position = p]
    ELSE cats

\* Category.updateOne({name: n}, {$set: {name: m}})
SetName(cats, n, m) ==
    IF HasCategory(cats, n)
    THEN [cats EXCEPT ![FirstNamed(cats, n)].name = m]
    ELSE cats

\* the unique index on Category.name rejects a write that would give a
\* second document the name n
\* (what the collection would answer without the unique index)
NoUniqueIndex(cats, n) == FALSE
DuplicateKey(cats, n) == HasCategory(cats, n)

\* Category.findOne().sort('-position'), then position + 1, or 0 if none
\* (what sort('position') in place of sort('-position') would give)
NextPositionFromMin(cats) ==
    IF Len(cats) = 0 THEN 0
    ELSE (CHOOSE p \in {cats[i].position : i \in 1..Len(cats)} :
            \A i \in 1..Len(cats) : cats[i].position >= p) + 1
NextPosition(cats) ==
    IF Len(cats) = 0 THEN 0
    ELSE (CHOOSE p \in {cats[i].position : i \in 1..Len(cats)} :
            \A i \in 1..Len(cats) : cats[i].position <= p) + 1

-----------------------------------------------------------------------------
(* Requests *)

\* a handler's own state: the request's parameters and body, the await it
\* is suspended at (pc) and its local variables
Idle == [op |-> "idle", pc |-> "idle", id |-> 0, name |-> NoValue,
         category |-> NoValue, oldName |-> NoValue, newName |-> NoValue,
         orderedCategories |-> <<>>, pending |-> {}, newPosition |-> 0]

NoResp == [valid |-> FALSE, status |-> 0, request |-> Idle]

\* outcome of a step: the handler suspends at its next await (status 0)
Continue(prods, cats, rq) ==
    [products |-> prods, categories |-> cats, request |-> rq, status |-> 0]

\* outcome of a step: res.status(s).json(...) ends the handler
Reply(prods, cats, rq, s) ==
    [products |-> prods, categories |-> cats, request |-> rq, status |-> s]

\* if (!product) return res.status(404).json({ message: 'Product not found' })
\* (what the handler would answer without the null test)
FallThrough(prods, cats, rq) == Reply(prods, cats, rq, 200)
ProductNotFound(prods, cats, rq) == Reply(prods, cats, rq, 404)

-----------------------------------------------------------------------------
(* findOrCreateCategory, shared by POST and PUT /api/products *)

FindOrCreateCategory(prods, cats, rq) ==
    CASE rq.pc = "find" ->
            \* let category = await Category.findOne({ name: categoryName })
            {Continue(prods, cats,
                [rq EXCEPT !.pc = IF HasCategory(cats, rq.category)
                                  THEN "write" ELSE "highest"])}
      [] rq.pc = "highest" ->
            \* await Category.findOne().sort('-position'); newPosition
            IF NextPosition(cats) <= MaxPos
            THEN {Continue(prods, cats,
                    [rq EXCEPT !.pc = "insert", !.newPosition = NextPosition(cats)])}
            ELSE {}
      [] rq.pc = "insert" ->
            \* await category.save(); the handler's catch answers 400
            IF DuplicateKey(cats, rq.category)
            THEN {Reply(prods, cats, rq, 400)}
            ELSE {Continue(prods,
                    Append(cats, [name |-> rq.category, position |-> rq.newPosition]),
                    [rq EXCEPT !.pc = "write"])}

-----------------------------------------------------------------------------
(* POST /api/products *)

PostProductRequests(N) ==
    {[Idle EXCEPT !.op = "postProduct", !.pc = "find", !.name = n, !.category = c] :
        n \in BodyNames, c \in N}

PostProduct(prods, cats, rq) ==
    IF rq.pc # "write" THEN FindOrCreateCategory(prods, cats, rq)
    \* await product.save(): validation (name is required), then the insert
    ELSE IF rq.name = NoValue THEN {Reply(prods, cats, rq, 400)}
    ELSE IF DOMAIN prods = ProductIds THEN {}
    ELSE {Reply(InsertProduct(prods, FreshId(prods),
                    [name |-> rq.name, category |-> rq.category]),
                cats, rq, 201)}

-----------------------------------------------------------------------------
(* PUT /api/products/:id *)

PutProductRequests(N) ==
    {[Idle EXCEPT !.op = "putProduct", !.pc = "find", !.id = i, !.category = c] :
        i \in ProductIds, c \in N}

\* the fields of req.body replace those of the stored document
ApplyBody(doc, name, category) ==
    [name |-> IF name = NoValue THEN doc.name ELSE name, category |-> category]

PutProduct(prods, cats, rq) ==
    IF rq.pc # "write" THEN FindOrCreateCategory(prods, cats, rq)
    \* await Product.findByIdAndUpdate(req.params.id, req.body, { new: true })
    ELSE IF rq.id \in DOMAIN prods
    THEN {Reply([prods EXCEPT ![rq.id] = ApplyBody(@, rq.name, rq.category)],
                cats, rq, 200)}
    ELSE {ProductNotFound(prods, cats, rq)}

-----------------------------------------------------------------------------
(* DELETE /api/products/:id *)

DeleteProductRequests ==
    {[Idle EXCEPT !.op = "deleteProduct", !.pc = "remove", !.id = i] : i \in ProductIds}

\* remainingProducts === 0
\* (a handler that never takes the clean-up branch)
NeverLast(prods, n) == FALSE
NoneRemaining(prods, n) == ProductsIn(prods, n) = {}

DeleteProduct(prods, cats, rq) ==
    CASE rq.pc = "remove" ->
            \* const product = await Product.findByIdAndDelete(req.params.id)
            IF rq.id \in DOMAIN prods
            THEN {Continue(RemoveProducts(prods, {rq.id}), cats,
                    [rq EXCEPT !.pc = "count", !.category = prods[rq.id].category])}
            ELSE {ProductNotFound(prods, cats, rq)}
      [] rq.pc = "count" ->
            \* await Product.countDocuments({ category: product.category })
            IF NoneRemaining(prods, rq.category)
            THEN {Continue(prods, cats, [rq EXCEPT !.pc = "cleanup"])}
            ELSE {Reply(prods, cats, rq, 200)}
      [] rq.pc = "cleanup" ->
            \* await Category.deleteOne({ name: product.category })
            {Reply(prods, DeleteOneCategory(cats, rq.category), rq, 200)}

-----------------------------------------------------------------------------
(* PUT /api/categories/order *)

PutOrderRequests(lists) ==
    {[Idle EXCEPT !.op = "putOrder", !.pc = "updates",
                  !.orderedCategories = L, !.pending = DOMAIN L] : L \in lists}

\* the index map() passes for the list element at (1-based) place i
\* (a 1-based index)
IndexPlusOne(i) == i
IndexOf(i) == i - 1

\* the Category.updateOne calls handed to Promise.all take effect one at a
\* time, in any order; the handler resumes after the last
PutOrder(prods, cats, rq) ==
    IF rq.pending = {} THEN {Reply(prods, cats, rq, 200)}
    ELSE {(IF rq.pending = {i}
           THEN Reply(prods,
                    SetPosition(cats, rq.orderedCategories[i], IndexOf(i)),
                    [rq EXCEPT !.pending = {}], 200)
           ELSE Continue(prods,
                    SetPosition(cats, rq.orderedCategories[i], IndexOf(i)),
                    [rq EXCEPT !.pending = @ \ {i}])) : i \in rq.pending}

-----------------------------------------------------------------------------
(* PUT /api/categories/:name *)

PutCategoryRequests(N) ==
    {[Idle EXCEPT !.op = "putCategory", !.pc = "check", !.oldName = o, !.newName = n] :
        o \in N, n \in N \cup {NoValue}}

\* const existingCategory = await Category.findOne({ name: newName })
\* (a handler without the lookup)
NeverExisting(cats, n) == FALSE
ExistingCategory(cats, n) == HasCategory(cats, n)

\* Product.updateMany({ category: o }, { $set: { category: n } })
\* (updateOne in place of updateMany: the first matching product only)
UpdateOne(prods, o, n) ==
    [i \in DOMAIN prods |->
        IF prods[i].category = o /\ \A j \in DOMAIN prods : prods[j].category = o => i <= j
        THEN [prods[i] EXCEPT !.category = n] ELSE prods[i]]
\* (an update with an empty filter)
UpdateAll(prods, o, n) == [i \in DOMAIN prods |-> [prods[i] EXCEPT !.category = n]]
UpdateMany(prods, o, n) ==
    [i \in DOMAIN prods |->
        IF prods[i].category = o THEN [prods[i] EXCEPT !.category = n] ELSE prods[i]]

PutCategory(prods, cats, rq) ==
    CASE rq.pc = "check" ->
            IF rq.newName = NoValue THEN {Reply(prods, cats, rq, 400)}
            ELSE IF ExistingCategory(cats, rq.newName)
            THEN {Reply(prods, cats, rq, 409)}
            ELSE {Continue(prods, cats, [rq EXCEPT !.pc = "products"])}
      [] rq.pc = "products" ->
            \* await Product.updateMany(...)
            {Continue(UpdateMany(prods, rq.oldName, rq.newName), cats,
                [rq EXCEPT !.pc = "category"])}
      [] rq.pc = "category" ->
            \* await Category.updateOne({ name: oldName }, { $set: { name: newName } })
            IF HasCategory(cats, rq.oldName) /\ DuplicateKey(cats, rq.newName)
            THEN {Reply(prods, cats, rq, 500)}
            ELSE {Reply(prods, SetName(cats, rq.oldName, rq.newName), rq, 200)}

-----------------------------------------------------------------------------
(* DELETE /api/categories/:name *)

DeleteCategoryRequests(N) ==
    {[Idle EXCEPT !.op = "deleteCategory", !.pc = "check", !.category = n] :
        n \in N}

\* Product.deleteMany({ category: n })
\* (a delete with an empty filter)
DeleteEvery(prods, n) == RemoveProducts(prods, DOMAIN prods)
DeleteMany(prods, n) == RemoveProducts(prods, ProductsIn(prods, n))

DeleteCategory(prods, cats, rq) ==
    CASE rq.pc = "check" ->
            \* const category = await Category.findOne({ name: categoryName })
            IF HasCategory(cats, rq.category)
            THEN {Continue(prods, cats, [rq EXCEPT !.pc = "products"])}
            ELSE {Reply(prods, cats, rq, 404)}
      [] rq.pc = "products" ->
            \* await Product.deleteMany({ category: categoryName })
            {Continue(DeleteMany(prods, rq.category), cats,
                [rq EXCEPT !.pc = "category"])}
      [] rq.pc = "category" ->
            \* await Category.deleteOne({ name: categoryName })
            {Reply(prods, DeleteOneCategory(cats, rq.category), rq, 200)}

-----------------------------------------------------------------------------
(* The server *)

\* the router: the outcomes of the next step of handler state rq
Step(prods, cats, rq) ==
    CASE rq.op = "postProduct" -> PostProduct(prods, cats, rq)
      [] rq.op = "putProduct" -> PutProduct(prods, cats, rq)
      [] rq.op = "deleteProduct" -> DeleteProduct(prods, cats, rq)
      [] rq.op = "putOrder" -> PutOrder(prods, cats, rq)
      [] rq.op = "putCategory" -> PutCategory(prods, cats, rq)
      [] rq.op = "deleteCategory" -> DeleteCategory(prods, cats, rq)

\* the outcomes of a handler that runs from state rq to its response with no
\* other request in between
RECURSIVE Run(_, _, _)
Run(prods, cats, rq) ==
    UNION {IF o.status # 0 THEN {o} ELSE Run(o.products, o.categories, o.request) :
            o \in Step(prods, cats, rq)}

\* the multipart server with no request in flight
NoUpload ==
    [op |-> "idle", pc |-> "idle", id |-> 0, name |-> NoValue, files |-> <<>>,
     variants |-> <<>>, existingImages |-> <<>>, settled |-> <<>>, status |-> 0]

\* a request body with no field set; price is the set of the values given
\* for it (none or one)
NoBody ==
    [name |-> NoValue, category |-> NoValue, description |-> NoValue,
     price |-> {}, variants |-> <<>>]

\* a client that has sent nothing yet
NoClient ==
    [server |-> "none", pc |-> "idle", posted |-> NoBody, status |-> 0, id |-> 0,
     got |-> <<>>]

Init ==
    /\ products = <<>>
    /\ categories = <<>>
    /\ req = Idle
    /\ resp = NoResp
    /\ upload = NoUpload
    /\ client = NoClient

\* a request is served from arrival to response
Serve(rq) ==
    \E o \in Run(products, categories, rq) :
        /\ products' = o.products
        /\ categories' = o.categories
        /\ UNCHANGED <<req, resp, upload, client>>

\* the handler that is followed takes one step, to its next await or to its
\* response
Advance(rq) ==
    \E o \in Step(products, categories, rq) :
        /\ products' = o.products
        /\ categories' = o.categories
        /\ IF o.status = 0
           THEN /\ req' = o.request
                /\ resp' = NoResp
           ELSE /\ req' = Idle
                /\ resp' = [valid |-> TRUE, status |-> o.status, request |-> o.request]
        /\ UNCHANGED <<upload, client>>

\* Each route: a request arrives and its handler is followed; the followed
\* handler resumes after an await; a request is served while another
\* handler is suspended.

PostProductRoute ==
    \/ \E rq \in PostProductRequests(RaceNames) : req = Idle /\ Advance(rq)
    \/ req.op = "postProduct" /\ Advance(req)
    \/ \E rq \in PostProductRequests(RaceNames) : req # Idle /\ Serve(rq)

PutProductRoute ==
    \/ \E rq \in PutProductRequests(RaceNames) : req = Idle /\ Advance(rq)
    \/ req.op = "putProduct" /\ Advance(req)
    \/ \E rq \in PutProductRequests(RaceNames) : req # Idle /\ Serve(rq)

DeleteProductRoute ==
    \/ \E rq \in DeleteProductRequests : req = Idle /\ Advance(rq)
    \/ req.op = "deleteProduct" /\ Advance(req)
    \/ \E rq \in DeleteProductRequests : req # Idle /\ Serve(rq)

PutOrderRoute ==
    \/ \E rq \in PutOrderRequests(RaceLists) : req = Idle /\ Advance(rq)
    \/ req.op = "putOrder" /\ Advance(req)
    \/ \E rq \in PutOrderRequests(RaceLists) : req # Idle /\ Serve(rq)

PutCategoryRoute ==
    \/ \E rq \in PutCategoryRequests(RaceNames) : req = Idle /\ Advance(rq)
    \/ req.op = "putCategory" /\ Advance(req)
    \/ \E rq \in PutCategoryRequests(RaceNames) : req # Idle /\ Serve(rq)

DeleteCategoryRoute ==
    \/ \E rq \in DeleteCategoryRequests(RaceNames) : req = Idle /\ Advance(rq)
    \/ req.op = "deleteCategory" /\ Advance(req)
    \/ \E rq \in DeleteCategoryRequests(RaceNames) : req # Idle /\ Serve(rq)

Next ==
    \/ PostProductRoute
    \/ PutProductRoute
    \/ DeleteProductRoute
    \/ PutOrderRoute
    \/ PutCategoryRoute
    \/ DeleteCategoryRoute

Spec == Init /\ [][Next]_vars

\* requests served one after the other
NextSeq ==
    \/ \E rq \in PostProductRequests(Names) : req = Idle /\ Serve(rq)
    \/ \E rq \in PutProductRequests(Names) : req = Idle /\ Serve(rq)
    \/ \E rq \in DeleteProductRequests : req = Idle /\ Serve(rq)
    \/ \E rq \in PutOrderRequests(OrderLists(Names)) : req = Idle /\ Serve(rq)
    \/ \E rq \in PutCategoryRequests(Names) : req = Idle /\ Serve(rq)
    \/ \E rq \in DeleteCategoryRequests(Names) : req = Idle /\ Serve(rq)

SpecSeq == Init /\ [][NextSeq]_vars

-----------------------------------------------------------------------------
(* The plain server (src/server.js): DELETE /api/products/:id *)

\* const product = await Product.findByIdAndDelete(req.params.id); 404 if null
PlainDeleteProduct(prods, id) ==
    IF id \in DOMAIN prods
    THEN [products |-> RemoveProducts(prods, {id}), status |-> 200]
    ELSE [products |-> prods, status |-> ProductNotFound(prods, <<>>, Idle).status]

-----------------------------------------------------------------------------
(* The multipart upload server (src/unnamed/part_000)                      *)
(*                                                                         *)
(* A field name is the sequence of its characters.  A URL is a number: the *)
(* k-th upload of a request to complete is given URL k by Cloudinary, and  *)
(* OldUrl is the URL of an image stored by an earlier request.             *)

Digits == <<"0", "1", "2", "3", "4", "5", "6", "7", "8", "9">>
ImagesField == <<"i", "m", "a", "g", "e", "s">>
VariantImagePrefix ==
    <<"v", "a", "r", "i", "a", "n", "t", "_", "i", "m", "a", "g", "e", "_">>
\* what follows variant_image_ in the field names clients send
Suffixes == {<<"0">>, <<"1">>, <<"0", "1">>, <<"x">>}
FieldNames == {ImagesField} \cup {VariantImagePrefix \o x : x \in Suffixes}
FileLists == UNION {[1..n -> FieldNames] : n \in 0..MaxFiles}
OldUrl == 0
\* req.body.variants parsed: n variants that each carry a stored image
SubmittedVariants(n) == [i \in 1..n |-> [size |-> i, image |-> OldUrl]]

\* originalField.startsWith(prefix)
StartsWith(s, prefix) ==
    Len(s) >= Len(prefix) /\ SubSeq(s, 1, Len(prefix)) = prefix

\* originalField.split('_'): the segments between the underscores
RECURSIVE Split(_)
Split(s) ==
    IF \A k \in 1..Len(s) : s[k] # "_"
    THEN <<s>>
    ELSE LET k == CHOOSE k \in 1..Len(s) :
                    s[k] = "_" /\ \A j \in 1..(k - 1) : s[j] # "_"
         IN <<SubSeq(s, 1, k - 1)>> \o Split(SubSeq(s, k + 1, Len(s)))

IsDigit(c) == \E d \in 1..Len(Digits) : Digits[d] = c
DigitValue(c) == (CHOOSE d \in 1..Len(Digits) : Digits[d] = c) - 1

\* the value of a sequence of digits
RECURSIVE Decimal(_)
Decimal(s) ==
    IF s = <<>> THEN 0
    ELSE 10 * Decimal(SubSeq(s, 1, Len(s) - 1)) + DigitValue(s[Len(s)])

\* the longest prefix of s made of digits
RECURSIVE LeadingDigits(_)
LeadingDigits(s) ==
    IF s = <<>> \/ ~IsDigit(Head(s)) THEN <<>> ELSE <<Head(s)>> \o LeadingDigits(Tail(s))

\* parseInt(s) for a string of letters and digits: the set holding the
\* number its leading digits spell, empty when the result is NaN
ParseInt(s) ==
    IF LeadingDigits(s) = <<>> THEN {} ELSE {Decimal(LeadingDigits(s))}

\* parseInt(originalField.split('_')[2])
VariantIndex(field) == ParseInt(Split(field)[3])

\* one upload promise
Pending == [state |-> "pending", url |-> OldUrl]
Fulfilled(u) == [state |-> "fulfilled", url |-> u]
Rejected == [state |-> "rejected", url |-> OldUrl]

\* (error, result) => { if (error) reject(error); else resolve(result); }
\* the upload is the n-th of the request to complete
Resolve(settled, i) ==
    [settled EXCEPT ![i] =
        Fulfilled(Cardinality({k \in DOMAIN settled : settled[k].state = "fulfilled"}) + 1)]
Reject(settled, i) == [settled EXCEPT ![i] = Rejected]

\* Promise.all(uploadPromises) fulfils when every promise has fulfilled and
\* rejects as soon as one has rejected (Promise.allSettled would wait for
\* every promise and never reject)
AllSettled(settled) == \A k \in DOMAIN settled : settled[k].state # "pending"
AllFulfilled(settled) == \A k \in DOMAIN settled : settled[k].state = "fulfilled"
AnyRejected(settled) == \E k \in DOMAIN settled : settled[k].state = "rejected"

\* uploadResults: the results in the order of the promises given to
\* Promise.all, which is the order of req.files
\* (a join that hands the results over as they arrive: the k-th is URL k)
InCompletionOrder(settled) == [k \in DOMAIN settled |-> k]
UploadResults(settled) == [k \in DOMAIN settled |-> settled[k].url]

\* uploadResults.forEach((result, index) => ...) from index k on: the main
\* image list and the variants after the files k, k+1, ... have been mapped
RECURSIVE MapResults(_, _, _, _, _)
MapResults(files, results, k, images, variants) ==
    IF k > Len(files) THEN [images |-> images, variants |-> variants]
    ELSE IF files[k] = ImagesField
    THEN MapResults(files, results, k + 1, Append(images, results[k]), variants)
    ELSE IF StartsWith(files[k], VariantImagePrefix)
            /\ \E n \in VariantIndex(files[k]) : n + 1 \in DOMAIN variants
    THEN LET n == CHOOSE n \in VariantIndex(files[k]) : TRUE
         IN MapResults(files, results, k + 1, images,
                       [variants EXCEPT ![n + 1].image = results[k]])
    ELSE MapResults(files, results, k + 1, images, variants)

\* multipart requests: POST /api/products and PUT /api/products/:id
UploadRequests ==
    {[NoUpload EXCEPT !.op = "post", !.pc = "uploads", !.name = n, !.files = f,
                      !.variants = SubmittedVariants(v),
                      !.settled = [k \in DOMAIN f |-> Pending]] :
        n \in BodyNames, f \in FileLists, v \in 0..MaxVariants}
    \cup
    {[NoUpload EXCEPT !.op = "put", !.pc = "uploads", !.id = i, !.name = n, !.files = f,
                      !.variants = SubmittedVariants(v), !.existingImages = e,
                      !.settled = [k \in DOMAIN f |-> Pending]] :
        i \in ProductIds, n \in BodyNames, f \in FileLists, v \in 0..MaxVariants,
        e \in {<<>>, <<OldUrl>>}}

\* new Product({ name, category, images, variants }): required fields
\* missing make save() fail; variants undefined is stored as an empty list
Mapped(u, images) ==
    MapResults(u.files, UploadResults(u.settled), 1, images, u.variants)
NewProduct(u) ==
    [name |-> u.name, images |-> Mapped(u, <<>>).images,
     variants |-> Mapped(u, <<>>).variants]

\* updatedProductData applied by findByIdAndUpdate: undefined fields (name
\* when absent, variants when empty) leave the stored value
UpdatedProduct(doc, u) ==
    [name |-> IF u.name = NoValue THEN doc.name ELSE u.name,
     images |-> Mapped(u, u.existingImages).images,
     variants |-> IF Len(u.variants) > 0 THEN Mapped(u, u.existingImages).variants
                  ELSE doc.variants]

\* the store the upload server is connected to: one product saved earlier
StoredProducts ==
    InsertProduct(<<>>, 1, [name |-> "p", images |-> <<OldUrl>>,
                            variants |-> SubmittedVariants(1)])

InitUpload ==
    /\ products = StoredProducts
    /\ categories = <<>>
    /\ req = Idle
    /\ resp = NoResp
    /\ upload = NoUpload
    /\ client = NoClient

\* a multipart request arrives; files.map starts one upload per file
StartUploads ==
    /\ upload.pc = "idle"
    /\ \E u \in UploadRequests : upload' = u
    /\ UNCHANGED <<products, categories, req, resp, client>>

\* Cloudinary calls back with a result
UploadSucceeds ==
    /\ upload.op # "idle"
    /\ \E i \in DOMAIN upload.settled :
        /\ upload.settled[i].state = "pending"
        /\ upload' = [upload EXCEPT !.settled = Resolve(@, i)]
    /\ UNCHANGED <<products, categories, req, resp, client>>

\* Cloudinary calls back with an error
UploadFails ==
    /\ upload.op # "idle"
    /\ \E i \in DOMAIN upload.settled :
        /\ upload.settled[i].state = "pending"
        /\ upload' = [upload EXCEPT !.settled = Reject(@, i)]
    /\ UNCHANGED <<products, categories, req, resp, client>>

\* await Promise.all(uploadPromises) throws: catch, 500
UploadsRejected ==
    /\ upload.pc = "uploads"
    /\ AnyRejected(upload.settled)
    /\ upload' = [upload EXCEPT !.pc = "done", !.status = 500]
    /\ UNCHANGED <<products, categories, req, resp, client>>

\* await Promise.all(uploadPromises) returns: the handler goes on to save
UploadsComplete ==
    /\ upload.pc = "uploads"
    /\ AllFulfilled(upload.settled)
    /\ upload' = [upload EXCEPT !.pc = "save"]
    /\ UNCHANGED <<products, categories, req, resp, client>>

\* POST: await newProduct.save(); 201, or 500 when validation fails
SaveNewProduct ==
    /\ upload.pc = "save"
    /\ upload.op = "post"
    /\ IF upload.name = NoValue
       THEN /\ upload' = [upload EXCEPT !.pc = "done", !.status = 500]
            /\ UNCHANGED products
       ELSE /\ DOMAIN products # ProductIds
            /\ upload' = [upload EXCEPT !.pc = "done", !.status = 201,
                                        !.id = FreshId(products)]
            /\ products' = InsertProduct(products, FreshId(products), NewProduct(upload))
    /\ UNCHANGED <<categories, req, resp, client>>

\* PUT: await Product.findByIdAndUpdate(...); 404 when null, else 200
SaveUpdatedProduct ==
    /\ upload.pc = "save"
    /\ upload.op = "put"
    /\ IF upload.id \in DOMAIN products
       THEN /\ upload' = [upload EXCEPT !.pc = "done", !.status = 200]
            /\ products' = [products EXCEPT ![upload.id] = UpdatedProduct(@, upload)]
       ELSE /\ upload' = [upload EXCEPT !.pc = "done", !.status = 404]
            /\ UNCHANGED products
    /\ UNCHANGED <<categories, req, resp, client>>

NextUpload ==
    \/ StartUploads
    \/ UploadSucceeds
    \/ UploadFails
    \/ UploadsRejected
    \/ UploadsComplete
    \/ SaveNewProduct
    \/ SaveUpdatedProduct

SpecUpload == InitUpload /\ [][NextUpload]_vars

-----------------------------------------------------------------------------
(* Creating a product without files and listing the products: the plain    *)
(* server (src/server.js) takes a JSON body, the upload server             *)
(* (src/unnamed/part_000) a form whose fields are text.                    *)

Servers == {"plain", "multipart"}
\* the price of a JSON body is a number, the price field of a form its digits
JsonPrices == {{}, {5}}
FormPrices == {{}, {<<"5">>}}
Bodies(prices) ==
    {[name |-> n, category |-> c, description |-> d, price |-> p,
      variants |-> SubmittedVariants(v)] :
        n \in BodyNames, c \in {"Snacks", NoValue}, d \in {"d", NoValue},
        p \in prices, v \in 0..MaxVariants}

\* Mongoose casts the text of a Number path to the number it spells
CastNumber(texts) == {Decimal(t) : t \in texts}

\* name: { required: true }, category: { required: true }
Valid(doc) == doc.name # NoValue /\ doc.category # NoValue

\* server.js: new Product(req.body)
PlainProduct(body) ==
    [name |-> body.name, category |-> body.category, description |-> body.description,
     price |-> body.price, images |-> <<>>, variants |-> body.variants]

\* price: variants.length > 0 ? undefined : price
\* (a product that keeps its price next to its variants)
AlwaysPrice(variants, price) == CastNumber(price)
FormPrice(variants, price) == IF Len(variants) > 0 THEN {} ELSE CastNumber(price)

\* part_000: new Product({ name, category, description, images, price,
\* variants }) of a request without files
FormProduct(body) ==
    LET mapped == NewProduct([NoUpload EXCEPT !.name = body.name,
                                              !.variants = body.variants])
    IN [name |-> mapped.name, category |-> body.category,
        description |-> body.description,
        price |-> FormPrice(body.variants, body.price),
        images |-> mapped.images, variants |-> mapped.variants]

\* Product.find({})
Find(prods) == prods

\* the stores a server is connected to: empty, or one product saved earlier
CatalogStores ==
    {<<>>, InsertProduct(<<>>, 1, PlainProduct([NoBody EXCEPT !.name = "p",
                                                              !.category = "Snacks"]))}

InitCatalog ==
    /\ products \in CatalogStores
    /\ categories = <<>>
    /\ req = Idle
    /\ resp = NoResp
    /\ upload = NoUpload
    /\ \E s \in Servers : client = [NoClient EXCEPT !.server = s]

\* server.js POST /api/products: 201, or 400 when save() fails validation
PostJson ==
    /\ client.server = "plain"
    /\ client.pc = "idle"
    /\ \E body \in Bodies(JsonPrices) :
        IF Valid(PlainProduct(body))
        THEN /\ DOMAIN products # ProductIds
             /\ products' = InsertProduct(products, FreshId(products), PlainProduct(body))
             /\ client' = [client EXCEPT !.pc = "posted", !.posted = body,
                                         !.status = 201, !.id = FreshId(products)]
        ELSE /\ client' = [client EXCEPT !.pc = "posted", !.posted = body, !.status = 400]
             /\ UNCHANGED products
    /\ UNCHANGED <<categories, req, resp, upload>>

\* part_000 POST /api/products without files: 201, or 500 when save() fails
PostForm ==
    /\ client.server = "multipart"
    /\ client.pc = "idle"
    /\ \E body \in Bodies(FormPrices) :
        IF Valid(FormProduct(body))
        THEN /\ DOMAIN products # ProductIds
             /\ products' = InsertProduct(products, FreshId(products), FormProduct(body))
             /\ client' = [client EXCEPT !.pc = "posted", !.posted = body,
                                         !.status = 201, !.id = FreshId(products)]
        ELSE /\ client' = [client EXCEPT !.pc = "posted", !.posted = body, !.status = 500]
             /\ UNCHANGED products
    /\ UNCHANGED <<categories, req, resp, upload>>

\* DELETE /api/products/:id comes between the POST and the GET
DeleteById ==
    /\ client.pc = "posted"
    /\ \E id \in ProductIds : products' = PlainDeleteProduct(products, id).products
    /\ client' = [client EXCEPT !.pc = "deleted"]
    /\ UNCHANGED <<categories, req, resp, upload>>

\* GET /api/products, right after the POST or later
GetProducts ==
    /\ client.pc \in {"posted", "deleted"}
    /\ client' = [client EXCEPT !.pc = IF client.pc = "posted" THEN "listed"
                                       ELSE "listed later",
                                !.got = Find(products)]
    /\ UNCHANGED <<products, categories, req, resp, upload>>

NextCatalog ==
    \/ PostJson
    \/ PostForm
    \/ DeleteById
    \/ GetProducts

SpecCatalog == InitCatalog /\ [][NextCatalog]_vars

-----------------------------------------------------------------------------
(* Properties *)

Range(s) == {s[i] : i \in DOMAIN s}
DocsNamed(cats, n) == {d \in Range(cats) : d.name = n}
SetMax(S) == CHOOSE m \in S : \A x \in S : x <= m
Outcomes(rq) == Run(products, categories, rq)
SameStore(o) == o.products = products /\ o.categories = categories

\* C1: a DELETE /api/products/:id that removes an existing product and runs
\* with no other request in between removes the Category document of the
\* product's category when no other product has that category, and leaves
\* that document (name and position) as it was when another product has it.
C1_DeleteProductCleansCategory ==
    \A rq \in DeleteProductRequests :
        rq.id \in DOMAIN products =>
            /\ Outcomes(rq) # {}
            /\ \A o \in Outcomes(rq) :
                LET c == products[rq.id].category IN
                    /\ rq.id \notin DOMAIN o.products
                    /\ IF ProductsIn(products, c) = {rq.id}
                       THEN DocsNamed(o.categories, c) = {}
                       ELSE /\ DocsNamed(o.categories, c) # {}
                            /\ DocsNamed(o.categories, c) = DocsNamed(categories, c)

C1_Witness ==
    \E rq \in DeleteProductRequests : \E o \in Outcomes(rq) :
        /\ rq.id \in DOMAIN products
        /\ ProductsIn(products, products[rq.id].category) = {rq.id}
        /\ HasCategory(categories, products[rq.id].category)
        /\ Len(categories) = 2
        /\ o.status = 200
        /\ Len(o.categories) = 1
        /\ ~HasCategory(o.categories, products[rq.id].category)

\* C2: a POST /api/products answered 201 whose category N has no Category
\* document adds exactly one, named N, at position (largest position before
\* the request) + 1, or 0 when there was none; when N has a document, the
\* categories are left as they were.
C2_PostProductFindOrCreate ==
    \A rq \in PostProductRequests(Names) : \A o \in Outcomes(rq) :
        o.status = 201 =>
            IF HasCategory(categories, rq.category)
            THEN o.categories = categories
            ELSE /\ Len(o.categories) = Len(categories) + 1
                 /\ \A k \in 1..Len(categories) : o.categories[k] = categories[k]
                 /\ o.categories[Len(categories) + 1] =
                        [name |-> rq.category,
                         position |-> IF categories = <<>> THEN 0
                                      ELSE SetMax({d.position : d \in Range(categories)}) + 1]

C2_Witness ==
    \E rq \in PostProductRequests(Names) : \E o \in Outcomes(rq) :
        /\ o.status = 201
        /\ ~HasCategory(categories, rq.category)
        /\ Len(categories) = 2
        /\ categories[1].position > categories[2].position
        /\ HasCategory(o.categories, rq.category)

\* C3: PUT /api/categories/:name with a newName that has a Category document
\* (newName equal to the old name included) answers 409 and changes neither
\* collection.
C3_RenameToExistingIsConflict ==
    \A rq \in PutCategoryRequests(Names) :
        (rq.newName # NoValue /\ HasCategory(categories, rq.newName)) =>
            /\ Outcomes(rq) # {}
            /\ \A o \in Outcomes(rq) : o.status = 409 /\ SameStore(o)

C3_Witness ==
    \E rq \in PutCategoryRequests(Names) : \E o \in Outcomes(rq) :
        /\ rq.newName = rq.oldName
        /\ HasCategory(categories, rq.newName)
        /\ ProductsIn(products, rq.oldName) # {}
        /\ o.status = 409

\* C4: DELETE /api/products/:id with an identifier no stored product has
\* answers 404 and leaves the products (and, in the category-aware server,
\* the categories) as they were.
C4_DeleteMissingProductIs404 ==
    \A rq \in DeleteProductRequests :
        rq.id \notin DOMAIN products =>
            /\ Outcomes(rq) # {}
            /\ \A o \in Outcomes(rq) : o.status = 404 /\ SameStore(o)
            /\ PlainDeleteProduct(products, rq.id) =
                    [products |-> products, status |-> 404]

C4_Witness ==
    \E rq \in DeleteProductRequests : \E o \in Outcomes(rq) :
        /\ rq.id \notin DOMAIN products
        /\ products # <<>>
        /\ categories # <<>>
        /\ o.status = 404
        /\ PlainDeleteProduct(products, rq.id).status = 404

\* C6: a PUT /api/categories/:name whose newName has no Category document and
\* which answers 200 with no other request in between gives newName to every
\* product that had the old name, leaves no product with the old name,
\* changes no other product, and renames the old Category document while
\* keeping its position.
C6_RenameCascades ==
    \A rq \in PutCategoryRequests(Names) : \A o \in Outcomes(rq) :
        (rq.newName # NoValue /\ ~HasCategory(categories, rq.newName)
            /\ o.status = 200) =>
            /\ DOMAIN o.products = DOMAIN products
            /\ \A i \in DOMAIN products :
                o.products[i] = IF products[i].category = rq.oldName
                                THEN [name |-> products[i].name, category |-> rq.newName]
                                ELSE products[i]
            /\ ProductsIn(o.products, rq.oldName) = {}
            /\ Len(o.categories) = Len(categories)
            /\ \A k \in 1..Len(categories) :
                o.categories[k] = IF categories[k].name = rq.oldName
                                  THEN [name |-> rq.newName,
                                        position |-> categories[k].position]
                                  ELSE categories[k]

C6_Witness ==
    \E rq \in PutCategoryRequests(Names) : \E o \in Outcomes(rq) :
        /\ rq.newName # NoValue
        /\ ~HasCategory(categories, rq.newName)
        /\ HasCategory(categories, rq.oldName)
        /\ ProductsIn(products, rq.oldName) # {}
        /\ \E i \in DOMAIN products : products[i].category \notin {rq.oldName, rq.newName}
        /\ \E d \in DocsNamed(categories, rq.oldName) : d.position > 0
        /\ o.status = 200
        /\ ProductsIn(o.products, rq.newName) = ProductsIn(products, rq.oldName)

\* C7: DELETE /api/categories/:name for a name that has a Category document
\* removes that document and every product of that category, and nothing
\* else; for a name without a document it answers 404 and changes nothing.
C7_DeleteCategoryCascades ==
    \A rq \in DeleteCategoryRequests(Names) :
        /\ Outcomes(rq) # {}
        /\ \A o \in Outcomes(rq) :
            IF HasCategory(categories, rq.category)
            THEN /\ o.status = 200
                 /\ DOMAIN o.products =
                        {i \in DOMAIN products : products[i].category # rq.category}
                 /\ \A i \in DOMAIN o.products : o.products[i] = products[i]
                 /\ ~HasCategory(o.categories, rq.category)
                 /\ Len(o.categories) = Len(categories) - 1
                 /\ Range(o.categories) =
                        {d \in Range(categories) : d.name # rq.category}
            ELSE o.status = 404 /\ SameStore(o)

C7_Witness ==
    \E rq \in DeleteCategoryRequests(Names) : \E o \in Outcomes(rq) :
        /\ HasCategory(categories, rq.category)
        /\ ProductsIn(products, rq.category) # {}
        /\ \E i \in DOMAIN products : products[i].category # rq.category
        /\ o.status = 200
        /\ Cardinality(DOMAIN o.products) = 1
        /\ Len(o.categories) = 1

\* C8: after a PUT /api/categories/order with list L (served with no other
\* request in between) every Category whose name occurs in L has as position
\* an index at which its name occurs in L, names of L without a document are
\* ignored and create nothing, the other categories keep their positions,
\* and the answer is 200.
C8_ReorderSetsIndexes ==
    \A rq \in PutOrderRequests(OrderLists(Names)) :
        /\ Outcomes(rq) # {}
        /\ \A o \in Outcomes(rq) :
            LET L == rq.orderedCategories IN
                /\ o.status = 200
                /\ o.products = products
                /\ Len(o.categories) = Len(categories)
                /\ \A k \in 1..Len(categories) :
                    /\ o.categories[k].name = categories[k].name
                    /\ IF categories[k].name \in Range(L)
                       THEN \E i \in DOMAIN L :
                                /\ L[i] = categories[k].name
                                /\ o.categories[k].position = i - 1
                       ELSE o.categories[k].position = categories[k].position

C8_Witness ==
    \E rq \in PutOrderRequests(OrderLists(Names)) : \E o \in Outcomes(rq) :
        LET L == rq.orderedCategories IN
            /\ Len(L) = 2
            /\ HasCategory(categories, L[2])
            /\ ~HasCategory(categories, L[1])
            /\ \E d \in Range(categories) : d.name \notin Range(L) /\ d.position = 0
            /\ \E d \in DocsNamed(categories, L[2]) : d.position # 1
            /\ o.status = 200
            /\ \E d \in DocsNamed(o.categories, L[2]) : d.position = 1

\* no two Category documents share a name
UniqueNames(cats) ==
    \A i, j \in 1..Len(cats) : cats[i].name = cats[j].name => i = j

\* C10: two POST /api/products for the same new category can both pass the
\* lookup; the unique index lets one insert succeed, the handler whose insert
\* meets the other's document answers 400 and saves no product, and no two
\* Category documents ever share a name.
C10_ConcurrentFirstUse ==
    [][/\ UniqueNames(categories')
       /\ (req.op = "postProduct" /\ req.pc = "insert" /\ req' # req
              /\ HasCategory(categories, req.category)) =>
            /\ req' = Idle
            /\ resp'.valid /\ resp'.status = 400
            /\ products' = products
            /\ categories' = categories]_vars

C10_Witness ==
    /\ resp.valid
    /\ resp.status = 400
    /\ resp.request.op = "postProduct"
    /\ resp.request.pc = "insert"
    /\ resp.request.name # NoValue
    /\ Cardinality(DocsNamed(categories, resp.request.category)) = 1
    /\ Len(categories) = 1
    /\ Cardinality(ProductsIn(products, resp.request.category)) = 1

\* the saved product of a multipart request that answered 200 or 201
Saved == products[upload.id]
Succeeded == upload.pc = "done" /\ upload.status \in {200, 201}
\* the URL Cloudinary returned for the k-th file of the request
UrlOf(k) == upload.settled[k].url
\* the main image list the saved product starts from
KeptImages == IF upload.op = "put" THEN upload.existingImages ELSE <<>>
\* the files named 'images' among the first k files
ImageFiles(k) == {j \in 1..k : upload.files[j] = ImagesField}
\* the files whose field name yields variant index n (counted from 0)
FilesOfVariant(n) ==
    {k \in DOMAIN upload.files :
        /\ StartsWith(upload.files[k], VariantImagePrefix)
        /\ VariantIndex(upload.files[k]) = {n}}
\* every 'images' file has its own URL in the main image list, after the
\* kept images and in request file order
MainImagesInFileOrder ==
    /\ Len(Saved.images) = Len(KeptImages) + Cardinality(ImageFiles(Len(upload.files)))
    /\ \A j \in DOMAIN KeptImages : Saved.images[j] = KeptImages[j]
    /\ \A k \in ImageFiles(Len(upload.files)) :
        Saved.images[Len(KeptImages) + Cardinality(ImageFiles(k))] = UrlOf(k)

\* C5 as stated: after a multipart create or update that succeeded, for every
\* file named variant_image_<i> with i an index of the submitted variants,
\* variants[i].image of the saved product is the URL returned for that file,
\* and every 'images' file has its URL in the main image list in request
\* file order, whatever the order in which the uploads completed.
C5_EveryVariantFileIsSaved ==
    Succeeded =>
        /\ MainImagesInFileOrder
        /\ \A k \in DOMAIN upload.files : \A n \in 0..(Len(upload.variants) - 1) :
            upload.files[k] = VariantImagePrefix \o <<Digits[n + 1]>> =>
                Saved.variants[n + 1].image = UrlOf(k)

\* C5 (amended): after a multipart create or update that succeeded, for every
\* index i of the submitted variants, variants[i].image of the saved product
\* is the URL returned for the last file, in request file order, whose field
\* name yields i, or the submitted image when there is no such file; every
\* 'images' file has its URL in the main image list in request file order;
\* both whatever the order in which the uploads completed.
C5_LastVariantFileIsSaved ==
    Succeeded =>
        /\ MainImagesInFileOrder
        /\ Len(upload.variants) > 0 => Len(Saved.variants) = Len(upload.variants)
        /\ \A n \in 0..(Len(upload.variants) - 1) :
            Saved.variants[n + 1].image =
                IF FilesOfVariant(n) = {} THEN upload.variants[n + 1].image
                ELSE UrlOf(SetMax(FilesOfVariant(n)))

C5_Witness ==
    /\ Succeeded
    /\ Len(upload.files) = 2
    /\ upload.files[1] = upload.files[2]
    /\ FilesOfVariant(0) = {1, 2}
    /\ UrlOf(1) = 2
    /\ UrlOf(2) = 1
    /\ Len(upload.variants) = 2
    /\ Saved.variants[1].image = UrlOf(2)

\* C9: once an upload of a multipart request has failed, no step of that
\* request creates or modifies a product, however many of its other uploads
\* succeed, and the answer of the request is 500.
C9_UploadFailureFailsRequest ==
    [][AnyRejected(upload'.settled) =>
            /\ products' = products
            /\ upload'.pc # "save"
            /\ upload'.pc = "done" => upload'.status = 500]_vars

C9_Witness ==
    /\ upload.pc = "done"
    /\ upload.status = 500
    /\ upload.op = "put"
    /\ upload.id \in DOMAIN products
    /\ upload.name # NoValue
    /\ \E k \in DOMAIN upload.settled : upload.settled[k].state = "rejected"
    /\ \E k \in DOMAIN upload.settled : upload.settled[k].state = "fulfilled"
    /\ products = StoredProducts

\* the product a client created, as the GET that followed returned it
Listed == client.got[client.id]
\* the price the client submitted, as a number
SubmittedPrice ==
    IF client.server = "plain" THEN client.posted.price
    ELSE {Decimal(t) : t \in client.posted.price}
CreatedThenListed == client.pc = "listed" /\ client.status = 201
OtherFieldsMatch ==
    /\ client.id \in DOMAIN client.got
    /\ Listed.name = client.posted.name
    /\ Listed.category = client.posted.category
    /\ Listed.description = client.posted.description
    /\ Listed.variants = client.posted.variants

\* C11 as stated: for every valid payload without files, a POST that answers
\* 201 followed by GET returns the created product with name, category,
\* description, price and variants equal to the submitted values.
C11_PostThenGetAllFields ==
    CreatedThenListed => OtherFieldsMatch /\ Listed.price = SubmittedPrice

\* C11 (amended): for every valid payload without files, a POST that answers
\* 201 followed by GET returns the created product with name, category,
\* description and variants equal to the submitted values; its price equals
\* the submitted price in the plain server, and in the upload server when
\* the submitted variants list is empty; the upload server stores no price
\* for a product submitted with variants.
C11_PostThenGetFields ==
    CreatedThenListed =>
        /\ OtherFieldsMatch
        /\ Listed.price =
            IF client.server = "multipart" /\ Len(client.posted.variants) > 0
            THEN {} ELSE SubmittedPrice

C11_Witness ==
    /\ CreatedThenListed
    /\ client.server = "multipart"
    /\ client.posted.price # {}
    /\ client.posted.description # NoValue
    /\ Len(client.posted.variants) = 0
    /\ Listed.price = {5}
    /\ Cardinality(DOMAIN client.got) = 2

\* C12: a rename is two separate writes.  The first gives newName to every
\* product of the old name and leaves the Category collection as it is, and
\* leaves the handler suspended before its second write, where other
\* requests are served; the second renames the Category document and
\* touches no product.
C12_RenameIsTwoWrites ==
    [][/\ (req.op = "putCategory" /\ req.pc = "products" /\ req' # req) =>
            /\ req' = [req EXCEPT !.pc = "category"]
            /\ categories' = categories
            /\ DOMAIN products' = DOMAIN products
            /\ \A i \in DOMAIN products :
                products'[i] = IF products[i].category = req.oldName
                               THEN [products[i] EXCEPT !.category = req.newName]
                               ELSE products[i]
       /\ (req.op = "putCategory" /\ req.pc = "category" /\ req' # req) =>
            products' = products]_vars

\* the state between the two writes: products carry the new name, no
\* Category document has it, and the document of the old name is still there
C12_Witness ==
    /\ req.op = "putCategory"
    /\ req.pc = "category"
    /\ ProductsIn(products, req.newName) # {}
    /\ ProductsIn(products, req.oldName) = {}
    /\ ~HasCategory(categories, req.newName)
    /\ HasCategory(categories, req.oldName)
    /\ \E rq \in PostProductRequests(RaceNames) \cup DeleteCategoryRequests(RaceNames) :
        ENABLED Serve(rq)

\* C13: in every state in which no request is in progress, whatever the
\* interleaving of the requests that led to it, the category string of each
\* product is the name of a Category document.
C13_ProductCategoryExists ==
    req = Idle =>
        \A i \in DOMAIN products : HasCategory(categories, products[i].category)

\* C14: after any sequence of requests served one after the other, every
\* Category document is the category of at least one product.
C14_CategoryHasProduct ==
    \A k \in 1..Len(categories) : ProductsIn(products, categories[k].name) # {}

\* C15: PUT /api/products/:id with an identifier that matches no stored
\* product answers 404 and leaves the Product and the Category collection
\* unchanged, also when the body names a category that does not exist yet.
C15_PutMissingProductIs404 ==
    \A rq \in PutProductRequests(Names) :
        rq.id \notin DOMAIN products =>
            /\ Outcomes(rq) # {}
            /\ \A o \in Outcomes(rq) : o.status = 404 /\ SameStore(o)

\* C16: in every reachable state, under any interleaving of the requests, no
\* two distinct Category documents have the same position.
C16_PositionsDistinct ==
    \A i, j \in 1..Len(categories) :
        categories[i].position = categories[j].position => i = j

====
